---- MODULE Spec2Model ----
(***************************************************************************)
(* Model of the Demoblaze cart page objects (CartPage, ProductDetailPage), *)
(* the price parser (parsePrice) and the storefront they drive.            *)
(*                                                                         *)
(* Texts are sequences of one-character strings.  The page objects are     *)
(* asynchronous: every `await` is a point where the storefront may act,    *)
(* so each operation is a chain of actions linked by pc.                   *)
(***************************************************************************)
EXTENDS Integers, Sequences, FiniteSets, TLC

VARIABLES
    cart,       \* storefront: the items the cart holds (product ids), in listing order
    rows,       \* storefront: the rendered rows of '#tbodyid > tr' (product ids)
    totalText,  \* storefront: text of '#totalp'
    page,       \* storefront: "home", "cart" or the product whose detail page is shown
    addPending, \* storefront: product whose add request is not handled yet, or NoProduct
    pendingDel, \* storefront: 1-based position whose deletion is accepted but not applied, 0 if none
    dialog,     \* browser: "none", "open" (unacknowledged) or "accepted"
    op,         \* page object: operation in progress, or the last one finished
    pc,         \* page object: position inside the operation; "ready" or "failed" between operations
    argI,       \* page object: index argument i of the operation / loop variable
    argName,    \* page object: name (or expected message) argument
    itemCount,  \* page object: local `itemCount` / `n`
    outcome,    \* how the last operation ended: "ok", "Timeout", "NotFound", "AssertFail"
    ret,        \* value returned by the last read
    delLog,     \* history: positions (0-based, resolved) of the deletion requests of this operation
    cart0,      \* history: cart when the operation was called
    rows0,      \* history: rows when the operation was called
    call0,      \* history: index the caller passed to the operation
    prevOp,     \* history: operation that returned just before this one
    added,      \* history: products whose add was acknowledged in this session
    deleted,    \* history: a deletion was requested in this session
    text,       \* price parser: input text
    result,     \* price parser: <<value returned>>, or <<>> before the call
    attempt     \* test runner: number of retries of the scenario so far

cartVars  == <<cart, rows, totalText, page, addPending, pendingDel, dialog>>
progVars  == <<op, pc, argI, argName, itemCount, outcome, ret>>
histVars  == <<delLog, cart0, rows0, call0, prevOp, added, deleted>>
parseVars == <<text, result>>
runVars   == <<attempt>>
vars      == <<cartVars, progVars, histVars, parseVars, runVars>>

----------------------------------------------------------------------------
(* Bounds *)
MaxCart == 3      \* largest cart the session builds
MaxLen  == 3      \* longest generated price text

NoProduct == "none"

----------------------------------------------------------------------------
(* Price parser: src/utils/money *)

Digit == {"0", "1", "2", "3", "4", "5", "6", "7", "8", "9"}

DigitVal(c) ==
    CASE c = "0" -> 0 [] c = "1" -> 1 [] c = "2" -> 2 [] c = "3" -> 3
      [] c = "4" -> 4 [] c = "5" -> 5 [] c = "6" -> 6 [] c = "7" -> 7
      [] c = "8" -> 8 [] c = "9" -> 9

IsDigitOrDot(c) == c \in Digit \/ c = "."

StripNothing(t) == t

IsDigitDotOrSign(c) == c \in Digit \/ c \in {".", "-"}

\* a pattern that lets the sign through: /[^\d.-]/g
StripKeepingSign(t) == SelectSeq(t, IsDigitDotOrSign)

\* text.replace(/[^\d.]/g, '')
StripNonNumeric(t) == SelectSeq(t, IsDigitOrDot)

\* length of the longest prefix of s made of digits
RECURSIVE DigitRun(_)
DigitRun(s) ==
    IF s = <<>> \/ Head(s) \notin Digit THEN 0 ELSE 1 + DigitRun(Tail(s))

\* the natural number written by a sequence of digits (0 for the empty one)
RECURSIVE DigitsValue(_)
DigitsValue(s) ==
    IF s = <<>> THEN 0
    ELSE 10 * DigitsValue(SubSeq(s, 1, Len(s) - 1)) + DigitVal(s[Len(s)])

RECURSIVE Pow10(_)
Pow10(k) == IF k = 0 THEN 1 ELSE 10 * Pow10(k - 1)

\* Number.parseFloat: an optional sign, then the longest prefix that is a
\* decimal literal (digits, then optionally a dot and digits); NaN when that
\* prefix has no digit.  The value is (neg ? -1 : 1) * (ip + fnum / fden).
ParseFloat(s) ==
    LET signed  == s # <<>> /\ Head(s) \in {"-", "+"}
        u       == IF signed THEN Tail(s) ELSE s
        n1      == DigitRun(u)
        rest    == SubSeq(u, n1 + 1, Len(u))
        hasDot  == rest # <<>> /\ Head(rest) = "."
        n2      == IF hasDot THEN DigitRun(Tail(rest)) ELSE 0
        fracStr == IF hasDot THEN SubSeq(Tail(rest), 1, n2) ELSE <<>>
    IN  IF n1 = 0 /\ n2 = 0
        THEN [nan |-> TRUE, neg |-> FALSE, ip |-> 0, fnum |-> 0, fden |-> 1]
        ELSE [nan |-> FALSE, neg |-> signed /\ Head(s) = "-",
              ip |-> DigitsValue(SubSeq(u, 1, n1)),
              fnum |-> DigitsValue(fracStr), fden |-> Pow10(n2)]

\* what a number that is not a number is written as: no amount is negative one
NaN == -1

MathRoundTruncating(x) == IF x.nan THEN NaN ELSE x.ip

\* Math.round: NaN for NaN, else floor(x + 0.5), a tie going up
MathRound(x) ==
    IF x.nan THEN NaN
    ELSE IF x.neg
         THEN 0 - (x.ip + (IF 2 * x.fnum > x.fden THEN 1 ELSE 0))
         ELSE x.ip + (IF 2 * x.fnum >= x.fden THEN 1 ELSE 0)

Zero == [nan |-> FALSE, neg |-> FALSE, ip |-> 0, fnum |-> 0, fden |-> 1]

\* the parser without its Number.isFinite guard
parsePriceUnguarded(t) ==
    LET digits == StripNonNumeric(t)
    IN  MathRound(ParseFloat(digits))

\* Math.round(Number.isFinite(n) ? n : 0) of Number.parseFloat(digits || '0')
parsePrice(t) ==
    LET digits == StripNonNumeric(t)
        n      == ParseFloat(IF digits = <<>> THEN <<"0">> ELSE digits)
    IN  MathRound(IF n.nan THEN Zero ELSE n)

----------------------------------------------------------------------------
(* Inputs of the price parser *)

Alphabet == {"0", "5", "9", ".", ",", "$", "f", "-"}

RECURSIVE TextsUpTo(_)
TextsUpTo(k) ==
    IF k = 0 THEN {<<>>}
    ELSE LET shorter == TextsUpTo(k - 1)
         IN  shorter \cup {Append(t, c) : t \in {u \in shorter : Len(u) = k - 1}, c \in Alphabet}

Example790     == <<"$", "7", "9", "0">>
Example790_50  == <<"7", "9", "0", ".", "5", "0">>
Example1234_56 == <<"$", "1", ",", "2", "3", "4", ".", "5", "6">>
ExampleFree    == <<"f", "r", "e", "e">>
ExampleTwoDots == <<"1", ".", "5", ".", "5">>
ExampleNegative == <<"-", "$", "7", "9", "0", ".", "5", "0">>

Texts == TextsUpTo(MaxLen)
           \cup {Example790, Example790_50, Example1234_56, ExampleFree, ExampleTwoDots,
                 ExampleNegative}

----------------------------------------------------------------------------
(* The storefront: catalogue, texts it displays, and the cart view *)

Products == {"i5", "mac"}

ProductName(p) ==
    CASE p = "i5"  -> <<"i", "5">>
      [] p = "mac" -> <<"m", "a", "c">>

UnitPrice(p) == CASE p = "i5" -> 790 [] p = "mac" -> 1100

UnknownName == <<"x">>

Names == {ProductName(p) : p \in Products} \cup {UnknownName}

\* decimal digits of a natural number
RECURSIVE DigitsOf(_)
DigitsOf(n) ==
    LET d == <<"0", "1", "2", "3", "4", "5", "6", "7", "8", "9">>[(n % 10) + 1]
    IN  IF n < 10 THEN <<d>> ELSE Append(DigitsOf(n \div 10), d)

\* digits with a thousands separator
Grouped(n) ==
    IF n < 1000 THEN DigitsOf(n)
    ELSE DigitsOf(n \div 1000) \o <<",">> \o SubSeq(DigitsOf(1000 + (n % 1000)), 2, 4)

\* text of the price cell of a row, and of the name cell (padded as the markup is)
PriceCell(p) == <<"$">> \o Grouped(UnitPrice(p))
NameCell(p)  == <<" ">> \o ProductName(p) \o <<" ">>

RECURSIVE SumPrices(_)
SumPrices(s) == IF s = <<>> THEN 0 ELSE UnitPrice(Head(s)) + SumPrices(Tail(s))

\* text of '#totalp' for the rendered rows: empty while no row is rendered
TotalTextOf(s) == IF s = <<>> THEN <<>> ELSE Grouped(SumPrices(s))

AlertText == <<"a", "d", "d", "e", "d", ".">>
DefaultMessage == <<"a", "d", "d", "e", "d">>
OtherMessage   == <<"s", "o", "l", "d">>

RemoveAt(s, j) == SubSeq(s, 1, j - 1) \o SubSeq(s, j + 1, Len(s))
InsertAt(s, j, x) == SubSeq(s, 1, j - 1) \o <<x>> \o SubSeq(s, j, Len(s))

IsPrefix(s, t) == Len(s) <= Len(t) /\ SubSeq(t, 1, Len(s)) = s

----------------------------------------------------------------------------
(* Browser-side helpers of the page objects *)

\* String.prototype.trim
RECURSIVE TrimLeft(_)
TrimLeft(t) == IF t # <<>> /\ Head(t) = " " THEN TrimLeft(Tail(t)) ELSE t

RECURSIVE TrimRight(_)
TrimRight(t) ==
    IF t # <<>> /\ t[Len(t)] = " " THEN TrimRight(SubSeq(t, 1, Len(t) - 1)) ELSE t

Trim(t) == TrimRight(TrimLeft(t))

\* expect(...).toContain(sub) on strings
Contains(t, sub) ==
    \E k \in 0..(Len(t) - Len(sub)) : SubSeq(t, k + 1, k + Len(sub)) = sub

\* rows.nth(i): 1-based position of the row the locator resolves to, 0 when it
\* resolves to no element; a negative i counts from the last row
Nth(i) ==
    LET j == IF i >= 0 THEN i + 1 ELSE Len(rows) + i + 1
    IN  IF j >= 1 /\ j <= Len(rows) THEN j ELSE 0

\* CartPage.countItems: rows.count()
countItems == Len(rows)

\* CartPage.getRowName(i), for a row that is attached
getRowName(i) == Trim(NameCell(rows[Nth(i)]))

\* CartPage.getRowPrice(i), for a row that is attached
getRowPrice(i) == parsePrice(PriceCell(rows[Nth(i)]))

\* CartPage.getTotal
getTotal == parsePrice(totalText)

----------------------------------------------------------------------------
(* Initial state: a fresh browser session on an empty cart *)

Indices == -1..MaxCart

Init ==
    /\ cart = <<>> /\ rows = <<>> /\ totalText = <<>> /\ page = "home"
    /\ addPending = NoProduct /\ pendingDel = 0 /\ dialog = "none"
    /\ op = "none" /\ pc = "ready" /\ argI = 0 /\ argName = <<>>
    /\ itemCount = 0 /\ outcome = "ok" /\ ret = 0
    /\ delLog = <<>> /\ cart0 = <<>> /\ rows0 = <<>> /\ call0 = 0
    /\ prevOp = "none" /\ added = <<>> /\ deleted = FALSE
    /\ text = <<>> /\ result = <<>>
    /\ attempt = 0

\* the caller starts operation o with index argument k and text argument nm:
\* its locals are fresh, and the history of the call begins
Begin(o, k, nm) ==
    /\ pc = "ready"
    /\ op' = o /\ argI' = k /\ argName' = nm /\ itemCount' = 0 /\ ret' = 0
    /\ prevOp' = op /\ call0' = k
    /\ cart0' = cart /\ rows0' = rows /\ delLog' = <<>>

\* the operation goes on to its next await, at position l
Goto(l) == pc' = l /\ outcome' = "running"

\* the operation returns normally / throws
Return == pc' = "ready" /\ outcome' = "ok"
Throw(e) == pc' = "failed" /\ outcome' = e

----------------------------------------------------------------------------
(* Storefront steps: they happen on their own, between any two awaits *)

\* the add request is handled: the item enters the cart and the alert is raised
StoreAdd ==
    /\ addPending # NoProduct
    /\ \E j \in 1..(Len(cart) + 1) : cart' = InsertAt(cart, j, addPending)
    /\ addPending' = NoProduct
    /\ dialog' = "open"
    /\ UNCHANGED <<rows, totalText, page, pendingDel, progVars, histVars, parseVars, runVars>>

\* the cart view renders the next item of the cart and updates the total
Render ==
    /\ page = "cart"
    /\ Len(rows) < Len(cart)
    /\ rows' = Append(rows, cart[Len(rows) + 1])
    /\ totalText' = TotalTextOf(rows')
    /\ UNCHANGED <<cart, page, addPending, pendingDel, dialog, progVars, histVars, parseVars, runVars>>

\* an accepted deletion takes effect: the item leaves the cart, the rows after
\* it are renumbered and the total is updated
ApplyDelete ==
    /\ pendingDel # 0
    /\ cart' = RemoveAt(cart, pendingDel)
    /\ rows' = RemoveAt(rows, pendingDel)
    /\ totalText' = TotalTextOf(rows')
    /\ pendingDel' = 0
    /\ UNCHANGED <<page, addPending, dialog, progVars, histVars, parseVars, runVars>>

\* the storefront has nothing left to do.  Its delays are unspecified but
\* shorter than the timeouts of the driver (actionTimeout 15 s, expect 10 s),
\* so a wait gives up only when what it waits for can no longer happen by
\* itself; the fixed 2 s sleeps promise nothing.
Quiescent ==
    /\ addPending = NoProduct
    /\ pendingDel = 0
    /\ ~(page = "cart" /\ Len(rows) < Len(cart))

----------------------------------------------------------------------------
(* CatalogPage / ProductDetailPage *)

\* catalog.gotoHome(); catalog.openLaptops(); catalog.openProductByName(name)
OpenProductByName(p) ==
    /\ Begin("openProductByName", 0, ProductName(p))
    /\ page' = p /\ rows' = <<>> /\ totalText' = <<>>
    /\ Return
    /\ UNCHANGED <<cart, addPending, pendingDel, dialog, added, deleted, parseVars, runVars>>

\* addToCartExpectAlert(message): Promise.all([waitForEvent('dialog'), click()])
AddClick(msg) ==
    /\ Begin("addToCartExpectAlert", 0, msg)
    /\ page \in Products
    /\ Len(cart) < MaxCart
    /\ addPending' = page
    /\ dialog' = "none"
    /\ Goto("add_wait")
    /\ UNCHANGED <<cart, rows, totalText, page, pendingDel, added, deleted, parseVars, runVars>>

\* the dialog arrived: expect(dialog.message()).toContain(message); dialog.accept()
AddDialog ==
    /\ pc = "add_wait"
    /\ dialog = "open"
    /\ IF Contains(AlertText, argName)
       THEN /\ dialog' = "accepted"
            /\ added' = IF deleted THEN added ELSE Append(added, page)
            /\ Return
       ELSE /\ Throw("AssertFail")
            /\ UNCHANGED <<dialog, added>>
    /\ UNCHANGED <<cart, rows, totalText, page, addPending, pendingDel, op, argI, argName,
                   itemCount, ret, delLog, cart0, rows0, call0, prevOp, deleted, parseVars, runVars>>

----------------------------------------------------------------------------
(* CartPage.open and CartPage.clearCart *)

\* cartLink.click(): the cart page loads with no row rendered yet
ClickCartLink ==
    /\ page' = "cart" /\ rows' = <<>> /\ totalText' = <<>>
    /\ Goto("open_count")
    /\ UNCHANGED <<cart, addPending, pendingDel, dialog, added, deleted, parseVars, runVars>>

CallOpen == Begin("open", 0, <<>>) /\ ClickCartLink

CallClearCart == Begin("clearCart", 0, <<>>) /\ ClickCartLink

\* where control goes when open() returns
AfterOpen ==
    IF op = "open" THEN Return ELSE pc' = "clear_count" /\ UNCHANGED outcome

\* after waitForLoadState and waitForTimeout(2000): itemCount = rows.count()
OpenCount ==
    /\ pc = "open_count"
    /\ itemCount' = countItems
    /\ IF countItems > 0 THEN pc' = "open_visible" /\ UNCHANGED outcome ELSE AfterOpen
    /\ UNCHANGED <<cartVars, op, argI, argName, ret, histVars, parseVars, runVars>>

\* expect(rows.first()).toBeVisible()
OpenVisible ==
    /\ pc = "open_visible"
    /\ Nth(0) # 0
    /\ AfterOpen
    /\ UNCHANGED <<cartVars, op, argI, argName, itemCount, ret, histVars, parseVars, runVars>>

\* clearCart: itemCount = countItems(); return if 0, else start the loop at itemCount - 1
ClearCount ==
    /\ pc = "clear_count"
    /\ itemCount' = countItems
    /\ IF countItems = 0
       THEN Return /\ UNCHANGED argI
       ELSE argI' = countItems - 1 /\ pc' = "del_click" /\ UNCHANGED outcome
    /\ UNCHANGED <<cartVars, op, argName, ret, histVars, parseVars, runVars>>

\* clearCart: expect(await countItems()).toBe(0)
ClearVerify ==
    /\ pc = "clear_verify"
    /\ IF countItems = 0 THEN Return ELSE Throw("AssertFail")
    /\ UNCHANGED <<cartVars, op, argI, argName, itemCount, ret, histVars, parseVars, runVars>>

----------------------------------------------------------------------------
(* CartPage.deleteByIndex and CartPage.deleteByName *)

CallDeleteByIndex(k) ==
    /\ Begin("deleteByIndex", k, <<>>)
    /\ page = "cart"
    /\ Goto("del_click")
    /\ UNCHANGED <<cartVars, added, deleted, parseVars, runVars>>

\* rows.nth(i).getByRole('link', {name: 'Delete'}).click(), once row i is attached
DelClick ==
    /\ pc = "del_click"
    /\ Nth(argI) # 0
    /\ pendingDel' = Nth(argI)
    /\ delLog' = Append(delLog, Nth(argI) - 1)
    /\ deleted' = TRUE /\ added' = <<>>
    /\ pc' = "del_wait"
    /\ UNCHANGED <<cart, rows, totalText, page, addPending, dialog, op, argI, argName,
                   itemCount, outcome, ret, cart0, rows0, call0, prevOp, parseVars, runVars>>

\* the click found no row i within actionTimeout
DelClickTimeout ==
    /\ pc = "del_click"
    /\ Nth(argI) = 0
    /\ Quiescent
    /\ Throw("Timeout")
    /\ UNCHANGED <<cartVars, op, argI, argName, itemCount, ret, histVars, parseVars, runVars>>

\* deleteByIndex without its wait: it returns as soon as the click is done
DelDetachedNoWait ==
    /\ pc = "del_wait"
    /\ IF op = "clearCart"
       THEN /\ argI' = argI - 1
            /\ pc' = IF argI - 1 >= 0 THEN "del_click" ELSE "clear_verify"
            /\ UNCHANGED outcome
       ELSE Return /\ UNCHANGED argI
    /\ UNCHANGED <<cartVars, op, argName, itemCount, ret, histVars, parseVars, runVars>>

\* rows.nth(i).waitFor({state: 'detached'}) completes: no row at position i.
\* deleteByIndex returns: to its caller, or into the loop of clearCart (i--)
DelDetached ==
    /\ pc = "del_wait"
    /\ Nth(argI) = 0
    /\ IF op = "clearCart"
       THEN /\ argI' = argI - 1
            /\ pc' = IF argI - 1 >= 0 THEN "del_click" ELSE "clear_verify"
            /\ UNCHANGED outcome
       ELSE Return /\ UNCHANGED argI
    /\ UNCHANGED <<cartVars, op, argName, itemCount, ret, histVars, parseVars, runVars>>

\* position i is still occupied when the wait gives up
DelWaitTimeout ==
    /\ pc = "del_wait"
    /\ Nth(argI) # 0
    /\ Quiescent
    /\ Throw("Timeout")
    /\ UNCHANGED <<cartVars, op, argI, argName, itemCount, ret, histVars, parseVars, runVars>>

CallDeleteByName(nm) ==
    /\ Begin("deleteByName", 0, nm)
    /\ page = "cart"
    /\ Goto("dbn_count")
    /\ UNCHANGED <<cartVars, added, deleted, parseVars, runVars>>

\* deleteByName: n = countItems(); i = 0
DbnCount ==
    /\ pc = "dbn_count"
    /\ itemCount' = countItems
    /\ argI' = 0
    /\ pc' = "dbn_scan"
    /\ UNCHANGED <<cartVars, op, argName, outcome, ret, histVars, parseVars, runVars>>

\* deleteByName deleting the row after the one that matched
DbnScanOffByOne ==
    /\ pc = "dbn_scan"
    /\ IF argI < itemCount
       THEN /\ Nth(argI) # 0
            /\ IF getRowName(argI) = argName
               THEN pc' = "del_click" /\ argI' = argI + 1
               ELSE argI' = argI + 1 /\ UNCHANGED pc
            /\ UNCHANGED outcome
       ELSE Throw("NotFound") /\ UNCHANGED argI
    /\ UNCHANGED <<cartVars, op, argName, itemCount, ret, histVars, parseVars, runVars>>

\* deleteByName returning silently when the loop found nothing
DbnScanNoThrow ==
    /\ pc = "dbn_scan"
    /\ IF argI < itemCount
       THEN /\ Nth(argI) # 0
            /\ IF getRowName(argI) = argName
               THEN pc' = "del_click" /\ UNCHANGED argI
               ELSE argI' = argI + 1 /\ UNCHANGED pc
            /\ UNCHANGED outcome
       ELSE Return /\ UNCHANGED argI
    /\ UNCHANGED <<cartVars, op, argName, itemCount, ret, histVars, parseVars, runVars>>

\* one turn of the loop: i < n, getRowName(i) === name, deleteByIndex(i) or i++;
\* after the loop, throw new Error('No se encontro el item ...')
DbnScan ==
    /\ pc = "dbn_scan"
    /\ IF argI < itemCount
       THEN /\ Nth(argI) # 0
            /\ IF getRowName(argI) = argName
               THEN pc' = "del_click" /\ UNCHANGED argI
               ELSE argI' = argI + 1 /\ UNCHANGED pc
            /\ UNCHANGED outcome
       ELSE Throw("NotFound") /\ UNCHANGED argI
    /\ UNCHANGED <<cartVars, op, argName, itemCount, ret, histVars, parseVars, runVars>>

----------------------------------------------------------------------------
(* CartPage reads *)

CallCountItems ==
    /\ Begin("countItems", 0, <<>>)
    /\ page = "cart"
    /\ Goto("count_read")
    /\ UNCHANGED <<cartVars, added, deleted, parseVars, runVars>>

\* rows.count() answers at once, with the rows rendered at that moment
CountRead ==
    /\ pc = "count_read"
    /\ ret' = countItems
    /\ Return
    /\ UNCHANGED <<cartVars, op, argI, argName, itemCount, histVars, parseVars, runVars>>

CallGetTotal ==
    /\ Begin("getTotal", 0, <<>>)
    /\ page = "cart"
    /\ Goto("total_read")
    /\ UNCHANGED <<cartVars, added, deleted, parseVars, runVars>>

\* total.textContent() ?? '0', then parsePrice
TotalRead ==
    /\ pc = "total_read"
    /\ ret' = getTotal
    /\ Return
    /\ UNCHANGED <<cartVars, op, argI, argName, itemCount, histVars, parseVars, runVars>>

\* getRowName(i) / getRowPrice(i): textContent() first waits for the cell
CallGetRow(o, k) ==
    /\ Begin(o, k, <<>>)
    /\ page = "cart"
    /\ Goto("read_wait")
    /\ UNCHANGED <<cartVars, added, deleted, parseVars, runVars>>

ReadResolve ==
    /\ pc = "read_wait"
    /\ Nth(argI) # 0
    /\ ret' = IF op = "getRowName" THEN getRowName(argI) ELSE getRowPrice(argI)
    /\ Return
    /\ UNCHANGED <<cartVars, op, argI, argName, itemCount, histVars, parseVars, runVars>>

\* no row i within actionTimeout
ReadTimeout ==
    /\ pc = "read_wait"
    /\ Nth(argI) = 0
    /\ Quiescent
    /\ Throw("Timeout")
    /\ UNCHANGED <<cartVars, op, argI, argName, itemCount, ret, histVars, parseVars, runVars>>

----------------------------------------------------------------------------
(* The session *)

Next ==
    \/ StoreAdd \/ Render \/ ApplyDelete
    \/ \E p \in Products : OpenProductByName(p)
    \/ \E msg \in {DefaultMessage, OtherMessage} : AddClick(msg)
    \/ AddDialog
    \/ CallOpen \/ CallClearCart \/ OpenCount \/ OpenVisible \/ ClearCount \/ ClearVerify
    \/ \E k \in Indices : CallDeleteByIndex(k)
    \/ DelClick \/ DelClickTimeout \/ DelDetached \/ DelWaitTimeout
    \/ \E nm \in Names : CallDeleteByName(nm)
    \/ DbnCount \/ DbnScan
    \/ CallCountItems \/ CountRead \/ CallGetTotal \/ TotalRead
    \/ \E o \in {"getRowName", "getRowPrice"}, k \in Indices : CallGetRow(o, k)
    \/ ReadResolve \/ ReadTimeout

Spec == Init /\ [][Next]_vars

----------------------------------------------------------------------------
(* The price parser alone, on generated texts *)

InitParse ==
    /\ cart = <<>> /\ rows = <<>> /\ totalText = <<>> /\ page = "home"
    /\ addPending = NoProduct /\ pendingDel = 0 /\ dialog = "none"
    /\ op = "none" /\ pc = "ready" /\ argI = 0 /\ argName = <<>>
    /\ itemCount = 0 /\ outcome = "ok" /\ ret = 0
    /\ delLog = <<>> /\ cart0 = <<>> /\ rows0 = <<>> /\ call0 = 0
    /\ prevOp = "none" /\ added = <<>> /\ deleted = FALSE
    /\ text \in Texts /\ result = <<>>
    /\ attempt = 0

Parse ==
    /\ result = <<>>
    /\ result' = <<parsePrice(text)>>
    /\ UNCHANGED <<text, cartVars, progVars, histVars, runVars>>

NextParse == Parse

SpecParse == InitParse /\ [][NextParse]_vars

----------------------------------------------------------------------------
(* A scenario under the test runner: add products, open the cart, compare the
   total with the sum of the first two rows; a failed scenario may be retried *)

\* retries: 1
Retries == 1

\* TC-02, step 7: p0 = getRowPrice(0); p1 = getRowPrice(1); total = getTotal()
CallCheckTotal ==
    /\ Begin("checkTotal", 0, <<>>)
    /\ page = "cart"
    /\ Goto("chk_rows")
    /\ UNCHANGED <<cartVars, added, deleted, parseVars, runVars>>

\* getRowPrice(0), then getRowPrice(1): each waits for its row
ChkRow ==
    /\ pc = "chk_rows"
    /\ Nth(argI) # 0
    /\ ret' = ret + getRowPrice(argI)
    /\ argI' = argI + 1
    /\ pc' = IF argI = 0 THEN "chk_rows" ELSE "chk_total"
    /\ UNCHANGED <<cartVars, op, argName, itemCount, outcome, histVars, parseVars, runVars>>

ChkRowTimeout ==
    /\ pc = "chk_rows"
    /\ Nth(argI) = 0
    /\ Quiescent
    /\ Throw("Timeout")
    /\ UNCHANGED <<cartVars, op, argI, argName, itemCount, ret, histVars, parseVars, runVars>>

\* total = getTotal(); expect(total).toBe(p0 + p1)
ChkTotal ==
    /\ pc = "chk_total"
    /\ IF getTotal = ret THEN Return ELSE Throw("InvariantViolation")
    /\ UNCHANGED <<cartVars, op, argI, argName, itemCount, ret, histVars, parseVars, runVars>>

\* the runner starts a failed scenario again, whatever made it fail, in a new
\* browser context: a new session on an empty cart
Retry ==
    /\ pc = "failed"
    /\ attempt < Retries
    /\ attempt' = attempt + 1
    /\ cart' = <<>> /\ rows' = <<>> /\ totalText' = <<>> /\ page' = "home"
    /\ addPending' = NoProduct /\ pendingDel' = 0 /\ dialog' = "none"
    /\ op' = "none" /\ pc' = "ready" /\ argI' = 0 /\ argName' = <<>>
    /\ itemCount' = 0 /\ outcome' = "ok" /\ ret' = 0
    /\ delLog' = <<>> /\ cart0' = <<>> /\ rows0' = <<>> /\ call0' = 0
    /\ prevOp' = "none" /\ added' = <<>> /\ deleted' = FALSE
    /\ UNCHANGED parseVars

NextRunner ==
    \/ StoreAdd \/ Render
    \/ \E p \in Products : OpenProductByName(p)
    \/ \E msg \in {DefaultMessage, OtherMessage} : AddClick(msg)
    \/ AddDialog
    \/ CallOpen \/ OpenCount \/ OpenVisible
    \/ CallCheckTotal \/ ChkRow \/ ChkRowTimeout \/ ChkTotal
    \/ Retry

SpecRunner == Init /\ [][NextRunner]_vars

----------------------------------------------------------------------------
(* Vocabulary of the properties *)

Ended    == pc \in {"ready", "failed"}
Returned == pc = "ready" /\ outcome = "ok"

\* the storefront's own view of an item's name
HasName(s, nm) == \E j \in 1..Len(s) : ProductName(s[j]) = nm
FirstMatch(s, nm) ==
    CHOOSE j \in 1..Len(s) :
        /\ ProductName(s[j]) = nm
        /\ \A h \in 1..(j - 1) : ProductName(s[h]) # nm
Matches(s, nm) == Cardinality({j \in 1..Len(s) : ProductName(s[j]) = nm})

Occurrences(s, x) == Cardinality({j \in 1..Len(s) : s[j] = x})
SameItems(s, t) == \A x \in Products : Occurrences(s, x) = Occurrences(t, x)

RECURSIVE SumRowPrices(_)
SumRowPrices(k) == IF k = 0 THEN 0 ELSE SumRowPrices(k - 1) + getRowPrice(k - 1)

\* the view is what the storefront says it is: rendered rows are the first
\* items of the cart, and a pending deletion names a rendered row
ViewConsistent ==
    /\ IsPrefix(rows, cart)
    /\ pendingDel <= Len(rows)
    /\ (page # "cart" => rows = <<>>)
    /\ Len(cart) <= MaxCart

----------------------------------------------------------------------------
(* C1 *)

----------------------------------------------------------------------------
(* C2, C3: clearCart *)

\* C2: once clearCart() has returned, the cart is empty: the cart holds no
\* item, and a countItems() or getTotal() read that follows returns 0.
C2_ClearCartLeavesEmptyCart ==
    /\ (op = "clearCart" /\ Returned) => cart = <<>>
    /\ (prevOp = "clearCart" /\ op \in {"countItems", "getTotal"} /\ Returned) => ret = 0

\* C3: clearCart() called right after a clearCart() that returned issues no
\* deletion request and leaves the cart as it was, so that two consecutive
\* calls leave the state one call leaves.
C3_ClearCartTwiceIsOnce ==
    (op = "clearCart" /\ prevOp = "clearCart") => (delLog = <<>> /\ cart = cart0)

----------------------------------------------------------------------------
(* C4, C7: deleteByIndex *)

InRangeAtCall == call0 >= 0 /\ call0 < Len(rows0)

C7_DeleteOutOfRangeIsNotFound ==
    (op = "deleteByIndex" /\ Ended /\ ~InRangeAtCall /\ rows0 = cart0) =>
        (outcome = "NotFound" /\ cart = cart0 /\ delLog = <<>>)

----------------------------------------------------------------------------
(* C5, C6: deleteByName *)

\* C5: when a row of the view has the name, deleteByName(name) requests one
\* deletion at most, that of the lowest row with that name; it never ends with
\* NotFound; the cart is the original one until the deletion is applied and the
\* original one without that item, in the same order, from then on, in
\* particular whenever the call returns.
C5_DeleteByNameRemovesFirstMatch ==
    (op = "deleteByName" /\ HasName(rows0, argName)) =>
        LET j == FirstMatch(rows0, argName) IN
        /\ delLog \in {<<>>, <<j - 1>>}
        /\ outcome # "NotFound"
        /\ (pc \in {"del_wait", "ready"} => delLog = <<j - 1>>)
        /\ (delLog = <<>> \/ pendingDel # 0) => cart = cart0
        /\ (delLog # <<>> /\ pendingDel = 0) => cart = RemoveAt(cart0, j)
        /\ Returned => cart = RemoveAt(cart0, j)

\* the deletion of the first of two rows of the same name, in a cart of three, was applied
C5_Witness ==
    /\ op = "deleteByName" /\ HasName(rows0, argName)
    /\ Matches(rows0, argName) = 2 /\ Len(cart0) = 3 /\ FirstMatch(rows0, argName) = 2
    /\ delLog = <<1>> /\ pendingDel = 0 /\ cart = RemoveAt(cart0, 2)

\* C6: when no item of the cart has the name, deleteByName(name) requests no
\* deletion, removes nothing from the cart or the view, and ends only by
\* throwing its not-found error.
C6_DeleteByNameNotFound ==
    (op = "deleteByName" /\ ~HasName(cart0, argName)) =>
        /\ delLog = <<>> /\ pendingDel = 0
        /\ cart = cart0 /\ IsPrefix(rows0, rows)
        /\ Ended => outcome = "NotFound"

\* the call ended with the not-found error on a view of two rows
C6_Witness ==
    /\ op = "deleteByName" /\ ~HasName(cart0, argName)
    /\ Len(rows0) = 2 /\ pc = "failed" /\ outcome = "NotFound" /\ rows = rows0

----------------------------------------------------------------------------
(* C8: reads of a row *)

\* C8: getRowName(i) and getRowPrice(i) with i >= countItems() end with
\* OutOfRange, never with a value or a Timeout, and leave the cart unchanged.
C8_ReadOutOfRangeIsOutOfRange ==
    (op \in {"getRowName", "getRowPrice"} /\ Ended /\ call0 >= Len(rows0) /\ rows0 = cart0) =>
        (outcome = "OutOfRange" /\ cart = cart0)

----------------------------------------------------------------------------
(* C9: adding, then opening the cart *)

\* C9: when open() returns after one or two acknowledged adds to an empty
\* cart, the rows are exactly the added items, in some order, and getTotal()
\* is the sum of their prices.
C9_OpenShowsAddedItems ==
    (op = "open" /\ Returned /\ ~deleted /\ Len(added) \in {1, 2}) =>
        (SameItems(rows, added) /\ getTotal = SumPrices(added))

----------------------------------------------------------------------------
(* C10: parsePrice on the supported convention *)

Dots(t) == Cardinality({j \in 1..Len(t) : t[j] = "."})

IsDigit(c) == c \in Digit

\* the digits of t, and how many of them follow the decimal point
AllDigits(t) == SelectSeq(t, IsDigit)
DotAt(t) == CHOOSE j \in 1..Len(t) : t[j] = "."
FractionDigits(t) ==
    IF Dots(t) = 0 THEN 0 ELSE Len(AllDigits(SubSeq(t, DotAt(t) + 1, Len(t))))

\* the number written by the digits and the decimal point of t, rounded to the
\* nearest integer, a tie going away from zero: with N the digits read as one
\* integer and k of them after the point, the value is N / 10^k
NearestInteger(t) ==
    LET N == DigitsValue(AllDigits(t))
        k == FractionDigits(t)
    IN  (2 * N + Pow10(k)) \div (2 * Pow10(k))

\* C10: for a text with at most one decimal point, parsePrice returns the
\* number formed by its digits and its decimal point, rounded to the nearest
\* integer with ties away from zero; "$790" gives 790, "790.50" gives 791 and
\* "$1,234.56" gives 1235.
C10_ParsePriceRoundsToNearest ==
    (result # <<>>) =>
        /\ Dots(text) <= 1 => result[1] = NearestInteger(text)
        /\ text = Example790 => result[1] = 790
        /\ text = Example790_50 => result[1] = 791
        /\ text = Example1234_56 => result[1] = 1235

\* a tie was parsed and rounded away from zero
C10_Witness == text = Example790_50 /\ Dots(text) = 1 /\ result = <<791>>

----------------------------------------------------------------------------
(* C11, C17: parsePrice on any text *)

\* the digits and dots of t, in order
NumericChars(t) == SelectSeq(t, IsDigitOrDot)

\* nothing that reads as a number is left: no digit or dot at all, or a dot
\* that no digit precedes or follows at the start
NoNumber(t) ==
    LET d == NumericChars(t)
    IN  \/ d = <<>>
        \/ d[1] = "." /\ (Len(d) = 1 \/ d[2] = ".")

\* C11: parsePrice is total: on every text (empty, without a digit, made of
\* dots, with several dots) the call completes and returns an integer that is
\* a number, and it returns 0 whenever the stripped text is empty or does not
\* parse as a number.
C11_ParsePriceIsTotal ==
    /\ (result = <<>>) => ENABLED Parse
    /\ (result # <<>>) =>
         /\ result[1] \in Int /\ result[1] # NaN
         /\ NoNumber(text) => result[1] = 0

\* a text of dots and a digit that does not parse was turned into 0
C11_Witness == text = <<".", ".", "5">> /\ NoNumber(text) /\ result = <<0>>

HasSign(t) == \E j \in 1..Len(t) : t[j] = "-"

\* C17: every amount parsePrice returns is a non-negative integer, whatever
\* the text; a minus sign is stripped before parsing, so a text with one gives
\* the amount of the text without it.
C17_AmountsAreNonNegative ==
    (result # <<>>) =>
        /\ result[1] \in Nat
        /\ (HasSign(text) /\ Dots(text) <= 1) => result[1] = NearestInteger(text)
        /\ text = ExampleNegative => result[1] = 791

\* a price written with a minus sign was parsed to a positive amount
C17_Witness == text = ExampleNegative /\ HasSign(text) /\ result = <<791>>

----------------------------------------------------------------------------
(* C12: deleteByIndex returns *)

\* C12: deleteByIndex(i), for i in range on a settled view, the last position
\* or not, never ends in a Timeout: once the storefront has applied the
\* deletion its wait for the row at position i to be detached completes and
\* the call returns.
C12_DeleteByIndexReturns ==
    (op = "deleteByIndex" /\ Ended /\ InRangeAtCall /\ rows0 = cart0) => outcome = "ok"

----------------------------------------------------------------------------
(* C13: the deletion requests of clearCart *)

\* C13: clearCart() on a cart of n items requests the deletions of positions
\* n-1, n-2, ..., 0 in that order, each the last remaining position when it is
\* requested, and has requested n of them when it returns.
C13_ClearCartDeletesLastFirst ==
    (op = "clearCart") =>
        /\ \A j \in 1..Len(delLog) : delLog[j] = Len(cart0) - j
        /\ (pc = "del_wait" /\ pendingDel # 0) => pendingDel = Len(cart)
        /\ Returned => Len(delLog) = Len(cart0)

----------------------------------------------------------------------------
(* C14: the confirmation dialog of addToCartExpectAlert *)

\* C14: whenever addToCartExpectAlert has ended, by returning or by throwing,
\* the dialog its click raised has been accepted.
C14_DialogAcknowledged ==
    (op = "addToCartExpectAlert" /\ Ended) => dialog = "accepted"

----------------------------------------------------------------------------
(* C16: open settles the view *)

\* C16: when open() has returned the view shows every item of the cart, and
\* the countItems() read that follows returns the number of items the cart holds.
C16_OpenSettlesTheView ==
    /\ (op = "open" /\ Returned) => countItems = Len(cart)
    /\ (prevOp = "open" /\ op = "countItems" /\ Returned) => ret = Len(cart)

----------------------------------------------------------------------------
(* C15: what the runner retries *)

\* C15: a scenario that failed because the sum of the rows differs from the
\* reported total is not run again.
C15_InvariantViolationNotRetried ==
    [][(pc = "failed" /\ outcome = "InvariantViolation") => attempt' = attempt]_vars

====
